---- MODULE Spec2Model ----
(***************************************************************************)
(* The pattern parser of compiler/parse/src/pattern.rs.                    *)
(*                                                                         *)
(* The source text is a sequence of lexical tokens; the cursor (State) is  *)
(* the index of the next token, and a Region is the half-open span of      *)
(* token indices [start, end).  A parser maps a cursor to a ParseResult:   *)
(* Ok(progress, value, cursor) or Err(progress, error, cursor).            *)
(*                                                                         *)
(* Every result also carries a history field, hard: the errors with which  *)
(* a progress-made failure was first raised while the result was computed. *)
(* It is not program state; it lets the error-propagation claims speak     *)
(* about failures of sub-parsers.                                          *)
(***************************************************************************)
EXTENDS Naturals, Sequences, FiniteSets, TLC

VARIABLES input, parser, flag, result

vars == <<input, parser, flag, result>>

\* Longest token sequence enumerated exhaustively.
MaxLen == 3

(***************************************************************************)
(* Tokens                                                                  *)
(***************************************************************************)
\* A blank token is one maximal run of blank characters: SP holds only
\* spaces, NL holds a newline or comment (so it yields trivia), TAB holds a
\* tab character (which the blank-space scanner rejects).
Blank == {"SP", "NL", "TAB"}

Punct == {"(", ")", "_", "{", "}", ",", ":", "?"}

\* Identifier-shaped tokens, as scanned by ident().
IdentTokens == {"a", "b", "c", "if", "Foo", "Bar", "@Foo", "Foo.bar", "a.b.c", "if.x", "Foo.if", ".foo", "a..b"}

\* Tokens made of word characters: two of them are never adjacent, the
\* scanner would have read them as one token.
Word == IdentTokens \cup {"1"}

MadeProgress == "MadeProgress"

NoProgress == "NoProgress"

\* crate::keyword::KEYWORDS
KEYWORDS == {"if", "then", "else", "when", "as", "is"}

NoVal == [type |-> "None"]

Tok(s) == IF s \in 1..Len(input) THEN input[s] ELSE "EOF"

(***************************************************************************)
(* ParseResult and errors                                                  *)
(***************************************************************************)
Ok(p, v, s, h) == [ok |-> TRUE, progress |-> p, val |-> v, err |-> <<>>, state |-> s, hard |-> h]

Err(p, e, s, h) == [ok |-> FALSE, progress |-> p, val |-> NoVal, err |-> e, state |-> s, hard |-> h]

\* An error is its context trail, outermost kind first; each entry carries
\* the position (row, col) it was raised or re-tagged at.
E(kind, at) == <<[kind |-> kind, at |-> at]>>

\* A progress-made failure raised here (not passed on from a sub-parser):
\* the history records its error.
Raise(e, s, h) == Err(MadeProgress, e, s, h \cup {e})

Or(p, q) == IF p = MadeProgress \/ q = MadeProgress THEN MadeProgress ELSE NoProgress

\* The result r of a parser run after sub-parsers whose history is h.
After(h, r) == [r EXCEPT !.hard = h \cup @]

\* specialize(map_error, parser): re-tags the error of a failure with the
\* enclosing context's kind, at the failure's position.
specialize(kind, r) == IF r.ok THEN r ELSE [r EXCEPT !.err = E(kind, r.state) \o @]

\* specialize(|e, _, _| SyntaxError::Pattern(e), parser): no position.
specialize_syntax(r) == IF r.ok THEN r ELSE [r EXCEPT !.err = E("SyntaxError::Pattern", 0) \o @]

\* specialize(|_, r, c| kind(r, c), parser): replaces the error.
specialize_to(kind, r) == IF r.ok THEN r ELSE [r EXCEPT !.err = E(kind, r.state)]

\* specialize(move |_, _, _| kind(row, col), parser): replaces the error by
\* one at a position taken beforehand.
specialize_at(kind, at, r) == IF r.ok THEN r ELSE [r EXCEPT !.err = E(kind, at)]

\* A result named for the code that follows.
bind(r, k(_)) == k(r)

\* A parser run in sequence after parsers that started at cursor s0, made
\* progress p and have history h (and!, skip_first!, skip_second!): progress
\* accumulates, and a failure with nothing consumed is at the cursor the
\* sequence started from.
Then(s0, p, h, r) ==
  IF r.ok THEN [r EXCEPT !.progress = Or(p, @), !.hard = h \cup @]
  ELSE IF r.progress = MadeProgress THEN After(h, r)
  ELSE IF p = MadeProgress THEN Raise(r.err, r.state, h \cup r.hard)
  ELSE [r EXCEPT !.state = s0, !.hard = h \cup @]

(***************************************************************************)
(* Regions and located values                                              *)
(***************************************************************************)
Region(a, b) == [start |-> a, end |-> b]

Located(region, value) == [region |-> region, value |-> value]

\* Region::span_across(start, end)
span_across(r1, r2) == Region(r1.start, r2.end)

\* Region::across_all: folds span_across over the regions, first to last.
RECURSIVE across_from(_, _)
across_from(acc, regions) ==
  IF regions = <<>> THEN acc ELSE across_from(span_across(acc, Head(regions)), Tail(regions))

across_all(regions) == IF regions = <<>> THEN Region(0, 0) ELSE across_from(Head(regions), Tail(regions))

\* loc!(parser): the value located at the span the parser consumed.
loc(s, r) == IF r.ok THEN [r EXCEPT !.val = Located(Region(s, r.state), @)] ELSE r

(***************************************************************************)
(* Scanners                                                                *)
(***************************************************************************)
\* word1(ch, to_error)
word1(ch, kind, s) ==
  IF Tok(s) = ch THEN Ok(MadeProgress, ch, s + 1, {}) ELSE Err(NoProgress, E(kind, s), s, {})

\* space0_e(min_indent, space_problem, indent_problem): the trivia
\* (comments and newlines) of the blank run at the cursor.
space0_e(space_problem, s) ==
  CASE Tok(s) = "SP" -> Ok(MadeProgress, <<>>, s + 1, {})
    [] Tok(s) = "NL" -> Ok(MadeProgress, <<"Newline">>, s + 1, {})
    [] Tok(s) = "TAB" -> Raise(E(space_problem, s), s, {})
    [] OTHER -> Ok(NoProgress, <<>>, s, {})

\* backtrackable(parser): a failure becomes a no-progress failure at the
\* cursor the attempt started from.
backtrackable(s, r) == IF r.ok THEN r ELSE [r EXCEPT !.progress = NoProgress, !.state = s]

Some(v) == [type |-> "Some", value |-> v]

\* optional(parser): Some(value), or None for a no-progress failure.
optional(r) ==
  IF r.ok THEN [r EXCEPT !.val = Some(@)]
  ELSE IF r.progress = MadeProgress THEN r
  ELSE Ok(NoProgress, NoVal, r.state, r.hard)

\* The identifier scanner's classification of an identifier token.
Ident(kind, name, module_name, parts) ==
  [kind |-> kind, name |-> name, module_name |-> module_name, parts |-> parts]

ident_of(tok) ==
  CASE tok = "a" -> Ident("Access", "", "", <<"a">>)
    [] tok = "b" -> Ident("Access", "", "", <<"b">>)
    [] tok = "c" -> Ident("Access", "", "", <<"c">>)
    [] tok = "if" -> Ident("Access", "", "", <<"if">>)
    [] tok = "Foo" -> Ident("GlobalTag", "Foo", "", <<>>)
    [] tok = "Bar" -> Ident("GlobalTag", "Bar", "", <<>>)
    [] tok = "@Foo" -> Ident("PrivateTag", "@Foo", "", <<>>)
    [] tok = "Foo.bar" -> Ident("Access", "", "Foo", <<"bar">>)
    [] tok = "a.b.c" -> Ident("Access", "", "", <<"a", "b", "c">>)
    [] tok = "if.x" -> Ident("Access", "", "", <<"if", "x">>)
    [] tok = "Foo.if" -> Ident("Access", "", "Foo", <<"if">>)
    [] tok = ".foo" -> Ident("AccessorFunction", ".foo", "", <<>>)
    [] tok = "a..b" -> Ident("Malformed", "a..b", "", <<>>)

\* ident()
ident(s) ==
  IF Tok(s) \in IdentTokens THEN Ok(MadeProgress, ident_of(Tok(s)), s + 1, {})
  ELSE Err(NoProgress, E("ident", s), s, {})

\* lowercase_ident(): an unqualified lowercase name that is no keyword.
lowercase_ident(s) ==
  IF Tok(s) \in {"a", "b", "c"} THEN Ok(MadeProgress, Tok(s), s + 1, {})
  ELSE Err(NoProgress, E("lowercase_ident", s), s, {})

\* number_literal()
number_literal(s) ==
  IF Tok(s) = "1" THEN Ok(MadeProgress, [type |-> "Num", name |-> "1"], s + 1, {})
  ELSE Err(NoProgress, E("number_literal", s), s, {})

\* crate::string_literal::parse()
string_literal(s) ==
  IF Tok(s) = "str" THEN Ok(MadeProgress, [type |-> "PlainLine", name |-> "str"], s + 1, {})
  ELSE Err(NoProgress, E("string_literal", s), s, {})

\* crate::expr::expr_to_pattern on a number literal
expr_to_pattern(expr) == [type |-> "NumLiteral", name |-> expr.name]

\* crate::expr::expr(min_indent): the expression grammar, here its literals
\* and variables.
expr(s) ==
  CASE Tok(s) = "1" -> Ok(MadeProgress, [type |-> "Num", name |-> "1"], s + 1, {})
    [] Tok(s) = "str" -> Ok(MadeProgress, [type |-> "Str", name |-> "str"], s + 1, {})
    [] Tok(s) \in {"a", "b", "c"} -> Ok(MadeProgress, [type |-> "Var", name |-> Tok(s)], s + 1, {})
    [] OTHER -> Err(NoProgress, E("SyntaxError::Expr", s), s, {})

\* <[&str]>::join(".")
RECURSIVE join(_)
join(parts) ==
  IF parts = <<>> THEN ""
  ELSE IF Len(parts) = 1 THEN parts[1]
  ELSE parts[1] \o "." \o join(Tail(parts))

\* format!("{}.{}", module_name, joined)
format_qualified(module_name, joined) == module_name \o "." \o joined

(***************************************************************************)
(* Pattern nodes                                                           *)
(***************************************************************************)
Identifier(name) == [type |-> "Identifier", name |-> name]

GlobalTag(name) == [type |-> "GlobalTag", name |-> name]

PrivateTag(name) == [type |-> "PrivateTag", name |-> name]

Malformed(name) == [type |-> "Malformed", name |-> name]

Underscore(name) == [type |-> "Underscore", name |-> name]

StrLiteral(lit) == [type |-> "StrLiteral", name |-> lit.name]

Apply(head, args) == [type |-> "Apply", head |-> head, args |-> args]

RecordDestructure(fields) == [type |-> "RecordDestructure", fields |-> fields]

RequiredField(label, loc_val) == [type |-> "RequiredField", label |-> label, val |-> loc_val]

OptionalField(label, loc_val) == [type |-> "OptionalField", label |-> label, val |-> loc_val]

SpaceBefore(value, spaces) == [type |-> "SpaceBefore", inner |-> value, spaces |-> spaces]

SpaceAfter(value, spaces) == [type |-> "SpaceAfter", inner |-> value, spaces |-> spaces]

\* The `?` operator: a failure of r is returned as it is, otherwise the
\* rest of the function, k, runs on r.
try(r, k(_)) == IF ~r.ok THEN r ELSE k(r)

\* map!(parser, transform)
map(r, f(_)) == IF r.ok THEN [r EXCEPT !.val = f(r.val)] ELSE r

\* one_of!(p1, p2): p2 is tried, from the cursor p1's failure hands back,
\* when p1 fails without progress; a success or a progress-made failure of
\* p1 decides the alternation.
one_of(r1, p2(_)) ==
  IF r1.ok \/ r1.progress = MadeProgress THEN r1 ELSE After(r1.hard, p2(r1.state))

\* spaces_around_help: the trivia before and after decorate the value, the
\* region stays the value's.
with_spaces_before(loc_val, spaces) ==
  IF spaces = <<>> THEN loc_val ELSE Located(loc_val.region, SpaceBefore(loc_val.value, spaces))

with_spaces_after(loc_val, spaces) ==
  IF spaces = <<>> THEN loc_val ELSE Located(loc_val.region, SpaceAfter(loc_val.value, spaces))

\* space0_before_e(parser, min_indent, space_problem, indent_problem)
space0_before_e(p(_), space_problem, s) ==
  try(space0_e(space_problem, s), LAMBDA sp :
      map(Then(s, sp.progress, sp.hard, p(sp.state)), LAMBDA v : with_spaces_before(v, sp.val)))

\* space0_around_e(parser, min_indent, space_problem, indent_problem)
space0_around_e(p(_), space_problem, s) ==
  try(space0_before_e(p, space_problem, s), LAMBDA r :
      map(Then(s, r.progress, r.hard, space0_e(space_problem, r.state)),
          LAMBDA after : with_spaces_after(r.val, after)))

\* between!(opening, parser, closing): the value of parser.
between(open, p(_), close(_), s) ==
  try(open, LAMBDA o :
  try(Then(s, o.progress, o.hard, p(o.state)), LAMBDA body :
      map(Then(s, body.progress, body.hard, close(body.state)), LAMBDA c : body.val)))

(***************************************************************************)
(* The pattern parsers                                                     *)
(***************************************************************************)
lowercase_ident_pattern(s) ==
  LET row_col == s IN specialize_at("EPattern::End", row_col, lowercase_ident(s))

underscore_pattern_help(s) ==
  try(word1("_", "EPattern::Underscore", s), LAMBDA next :
  try(After(next.hard, optional(lowercase_ident_pattern(next.state))), LAMBDA final :
      IF final.val # NoVal
      THEN Ok(MadeProgress, Underscore(final.val.value), final.state, final.hard)
      ELSE Ok(MadeProgress, Underscore(""), final.state, final.hard)))

number_pattern_help(s) ==
  specialize_to("EPattern::Start", map(number_literal(s), expr_to_pattern))

string_pattern_help(s) ==
  specialize_to("EPattern::Start", map(string_literal(s), StrLiteral))

\* The grammar is recursive: a parenthesized pattern and a record field's
\* value hold a pattern, and a tag's argument is one of the alternatives of
\* a pattern.
RECURSIVE parse(_, _)

loc_pattern_in_parens_help(s) ==
  between(word1("(", "PInParens::Open", s),
          LAMBDA t : space0_around_e(LAMBDA u : specialize("PInParens::Syntax", parse("loc_pattern", u)),
                                     "PInParens::Space", t),
          LAMBDA t : word1(")", "PInParens::End", t),
          s)

\* either!(word1(b':', PRecord::Colon), word1(b'?', PRecord::Optional))
colon_or_question(s) ==
  one_of(map(word1(":", "PRecord::Colon", s), LAMBDA v : "First"),
         LAMBDA t : map(word1("?", "PRecord::Optional", t), LAMBDA v : "Second"))


\* Faulty variant of record_field_value: `?` is taken for `:`, so the
\* default value is parsed as a pattern and the field is a RequiredField.
record_field_value_question_as_colon(loc_label, spaces, opt_loc_val, state, h) ==
  IF opt_loc_val \in {Some("First"), Some("Second")}
  THEN try(After(h, space0_before_e(LAMBDA t : specialize("PRecord::Syntax", parse("loc_pattern", t)),
                                    "PRecord::Space", state)),
           LAMBDA v : Ok(MadeProgress, RequiredField(loc_label.value, v.val), v.state, v.hard))
  ELSE Ok(MadeProgress,
          IF spaces # <<>> THEN SpaceAfter(Identifier(loc_label.value), spaces)
          ELSE Identifier(loc_label.value),
          state, h)

\* record_pattern_field, the match on opt_loc_val
record_field_value(loc_label, spaces, opt_loc_val, state, h) ==
  CASE opt_loc_val = Some("First") ->
         try(After(h, space0_before_e(LAMBDA t : specialize("PRecord::Syntax", parse("loc_pattern", t)),
                                      "PRecord::Space", state)),
             LAMBDA v : Ok(MadeProgress, RequiredField(loc_label.value, v.val), v.state, v.hard))
    [] opt_loc_val = Some("Second") ->
         try(After(h, space0_before_e(LAMBDA t : specialize("PRecord::Syntax", loc(t, expr(t))),
                                      "PRecord::Space", state)),
             LAMBDA v : Ok(MadeProgress, OptionalField(loc_label.value, v.val), v.state, v.hard))
    [] OTHER ->
         Ok(MadeProgress,
            IF spaces # <<>> THEN SpaceAfter(Identifier(loc_label.value), spaces)
            ELSE Identifier(loc_label.value),
            state, h)

record_pattern_field(s) ==
  LET row_col == s IN
  try(loc(s, specialize_at("PRecord::Field", row_col, lowercase_ident(s))), LAMBDA label :
  try(After(label.hard, space0_e("PRecord::Space", label.state)), LAMBDA sp :
  try(After(sp.hard, optional(colon_or_question(sp.state))), LAMBDA o :
      record_field_value(label.val, sp.val, o.val, o.state, o.hard))))

RECURSIVE trailing_sep_by0_record_field(_, _, _)

\* trailing_sep_by0(word1(b',', PRecord::End), loc!(record_pattern_field)),
\* each field with the blank space around it: fields are parsed until one
\* fails without progress (the end of the fields, at the cursor the field was
\* tried at) or no comma follows; a comma may trail the last field.
trailing_sep_by0_record_field(buf, s, h) ==
  try(After(h, space0_e("PRecord::Space", s)), LAMBDA before :
  bind(After(before.hard, loc(before.state, record_pattern_field(before.state))), LAMBDA f :
      IF f.ok
      THEN try(After(f.hard, space0_e("PRecord::Space", f.state)), LAMBDA after :
           bind(word1(",", "PRecord::End", after.state), LAMBDA d :
               IF d.ok
               THEN trailing_sep_by0_record_field(
                      Append(buf, with_spaces_after(with_spaces_before(f.val, before.val), after.val)),
                      d.state, after.hard)
               ELSE Ok(MadeProgress,
                       Append(buf, with_spaces_after(with_spaces_before(f.val, before.val), after.val)),
                       after.state, after.hard)))
      ELSE IF f.progress = MadeProgress THEN f
      ELSE Ok(Or(before.progress, IF buf = <<>> THEN NoProgress ELSE MadeProgress),
              buf, before.state, f.hard)))

\* collection_trailing_sep_e!(word1(b'{', PRecord::Open), elem,
\*   word1(b',', PRecord::End), word1(b'}', PRecord::End), ...): the fields
\* and the final comments.
collection_trailing_sep_e(s) ==
  try(word1("{", "PRecord::Open", s), LAMBDA open :
  try(Then(s, open.progress, open.hard, trailing_sep_by0_record_field(<<>>, open.state, {})), LAMBDA elems :
      map(Then(s, MadeProgress, elems.hard,
               word1("}", IF elems.val = <<>> THEN "PRecord::Open" ELSE "PRecord::End", elems.state)),
          LAMBDA c : [fields |-> elems.val, final_comments |-> <<>>])))

record_pattern_help(s) ==
  try(collection_trailing_sep_e(s), LAMBDA c :
      Ok(MadeProgress, RecordDestructure(c.val.fields), c.state, c.hard))


\* Faulty variant of loc_tag_pattern_arg: backtrackable wraps the space and
\* the atomic pattern together, so a progress-made failure of the atomic
\* pattern becomes a no-progress failure.
loc_tag_pattern_arg_backtracks_pattern(s) ==
  backtrackable(s,
    try(space0_e("EPattern::Space", s), LAMBDA sp :
    try(After(sp.hard, parse("loc_parse_tag_pattern_arg", sp.state)), LAMBDA loc_pat :
        Ok(MadeProgress,
           IF sp.val = <<>> THEN Located(loc_pat.val.region, loc_pat.val.value)
           ELSE Located(loc_pat.val.region, SpaceBefore(loc_pat.val.value, sp.val)),
           loc_pat.state, loc_pat.hard))))

loc_tag_pattern_arg(s) ==
  try(backtrackable(s, space0_e("EPattern::Space", s)), LAMBDA sp :
  try(After(sp.hard, parse("loc_parse_tag_pattern_arg", sp.state)), LAMBDA loc_pat :
      Ok(MadeProgress,
         IF sp.val = <<>> THEN Located(loc_pat.val.region, loc_pat.val.value)
         ELSE Located(loc_pat.val.region, SpaceBefore(loc_pat.val.value, sp.val)),
         loc_pat.state, loc_pat.hard)))

RECURSIVE zero_or_more_tag_pattern_arg(_, _, _)

\* zero_or_more!(loc_tag_pattern_arg(min_indent)): elements are parsed until
\* one fails; a no-progress failure ends the repetition at the cursor the
\* failure hands back, a progress-made failure fails the repetition.
zero_or_more_tag_pattern_arg(buf, s, h) ==
  bind(After(h, loc_tag_pattern_arg(s)), LAMBDA r :
      IF r.ok THEN zero_or_more_tag_pattern_arg(Append(buf, r.val), r.state, r.hard)
      ELSE IF r.progress = MadeProgress THEN r
      ELSE Ok(IF buf = <<>> THEN NoProgress ELSE MadeProgress, buf, r.state, r.hard))


\* Faulty variant of loc_tag_pattern_args_help: one_or_more! in place of
\* zero_or_more!, which fails without progress when no argument is found.
loc_tag_pattern_args_help_one_or_more(s) ==
  bind(zero_or_more_tag_pattern_arg(<<>>, s, {}), LAMBDA r :
      IF r.ok /\ r.val = <<>> THEN Err(NoProgress, E("EPattern::Start", s), s, r.hard) ELSE r)

loc_tag_pattern_args_help(s) == zero_or_more_tag_pattern_arg(<<>>, s, {})


\* Faulty variant of tag_pattern: the test for an empty argument list is
\* left out and an Apply is built around every tag that may take arguments.
tag_pattern_always_apply(loc_ident, loc_tag, can_have_arguments, state, h) ==
  IF can_have_arguments
  THEN try(After(h, loc_tag_pattern_args_help(state)), LAMBDA a :
           Ok(MadeProgress,
              Located(across_all(<<loc_ident.region>> \o [i \in 1..Len(a.val) |-> a.val[i].region]),
                      Apply(loc_tag, a.val)),
              a.state, a.hard))
  ELSE Ok(MadeProgress, loc_tag, state, h)

\* Faulty variant of tag_pattern: the Apply node is given the region of the
\* tag alone instead of the span across the tag and its arguments.
tag_pattern_head_region(loc_ident, loc_tag, can_have_arguments, state, h) ==
  IF can_have_arguments
  THEN try(After(h, loc_tag_pattern_args_help(state)), LAMBDA a :
           IF a.val = <<>> THEN Ok(MadeProgress, loc_tag, a.state, a.hard)
           ELSE Ok(MadeProgress, Located(loc_ident.region, Apply(loc_tag, a.val)), a.state, a.hard))
  ELSE Ok(MadeProgress, loc_tag, state, h)

\* loc_ident_pattern_help, Ident::GlobalTag and Ident::PrivateTag
tag_pattern(loc_ident, loc_tag, can_have_arguments, state, h) ==
  IF can_have_arguments
  THEN try(After(h, loc_tag_pattern_args_help(state)), LAMBDA a :
           IF a.val = <<>> THEN Ok(MadeProgress, loc_tag, a.state, a.hard)
           ELSE Ok(MadeProgress,
                   Located(across_all(<<loc_ident.region>> \o [i \in 1..Len(a.val) |-> a.val[i].region]),
                           Apply(loc_tag, a.val)),
                   a.state, a.hard))
  ELSE Ok(MadeProgress, loc_tag, state, h)


\* Faulty variant of access_pattern: the keyword failure hands back the
\* cursor after the identifier instead of the cursor at entry.
access_pattern_keyword_consumed(loc_ident, module_name, parts, original_state, state, h) ==
  IF parts[1] \in KEYWORDS
  THEN Err(NoProgress, E("EPattern::End", original_state), state, h)
  ELSE IF module_name = "" /\ Len(parts) = 1
  THEN Ok(MadeProgress, Located(loc_ident.region, Identifier(parts[1])), state, h)
  ELSE Ok(MadeProgress,
          Located(loc_ident.region,
                  Malformed(IF module_name = "" THEN join(parts)
                            ELSE format_qualified(module_name, join(parts)))),
          state, h)

\* loc_ident_pattern_help, Ident::Access
access_pattern(loc_ident, module_name, parts, original_state, state, h) ==
  IF parts[1] \in KEYWORDS
  THEN Err(NoProgress, E("EPattern::End", original_state), original_state, h)
  ELSE IF module_name = "" /\ Len(parts) = 1
  THEN Ok(MadeProgress, Located(loc_ident.region, Identifier(parts[1])), state, h)
  ELSE Ok(MadeProgress,
          Located(loc_ident.region,
                  Malformed(IF module_name = "" THEN join(parts)
                            ELSE format_qualified(module_name, join(parts)))),
          state, h)


\* Faulty variant of ident_pattern: a malformed identifier fails without
\* progress at the cursor at entry.
ident_pattern_malformed_no_progress(loc_ident, can_have_arguments, original_state, state, h) ==
  CASE loc_ident.value.kind = "GlobalTag" ->
         tag_pattern(loc_ident, Located(loc_ident.region, GlobalTag(loc_ident.value.name)),
                     can_have_arguments, state, h)
    [] loc_ident.value.kind = "PrivateTag" ->
         tag_pattern(loc_ident, Located(loc_ident.region, PrivateTag(loc_ident.value.name)),
                     can_have_arguments, state, h)
    [] loc_ident.value.kind = "Access" ->
         access_pattern(loc_ident, loc_ident.value.module_name, loc_ident.value.parts,
                        original_state, state, h)
    [] loc_ident.value.kind = "AccessorFunction" ->
         Ok(MadeProgress, Located(loc_ident.region, Malformed(loc_ident.value.name)), state, h)
    [] loc_ident.value.kind = "Malformed" ->
         Err(NoProgress, E("EPattern::Start", original_state), original_state, h)

\* loc_ident_pattern_help, the match on loc_ident.value
ident_pattern(loc_ident, can_have_arguments, original_state, state, h) ==
  CASE loc_ident.value.kind = "GlobalTag" ->
         tag_pattern(loc_ident, Located(loc_ident.region, GlobalTag(loc_ident.value.name)),
                     can_have_arguments, state, h)
    [] loc_ident.value.kind = "PrivateTag" ->
         tag_pattern(loc_ident, Located(loc_ident.region, PrivateTag(loc_ident.value.name)),
                     can_have_arguments, state, h)
    [] loc_ident.value.kind = "Access" ->
         access_pattern(loc_ident, loc_ident.value.module_name, loc_ident.value.parts,
                        original_state, state, h)
    [] loc_ident.value.kind = "AccessorFunction" ->
         Ok(MadeProgress, Located(loc_ident.region, Malformed(loc_ident.value.name)), state, h)
    [] loc_ident.value.kind = "Malformed" ->
         Raise(E("EPattern::Start", state), state, h)

loc_ident_pattern_help(can_have_arguments, s) ==
  LET original_state == s IN
  try(specialize_to("EPattern::Start", loc(s, ident(s))), LAMBDA i :
      ident_pattern(i.val, can_have_arguments, original_state, i.state, i.hard))

loc_pattern_help(s) ==
  one_of(one_of(one_of(one_of(one_of(
    specialize("EPattern::PInParens", loc_pattern_in_parens_help(s)),
    LAMBDA t : loc(t, underscore_pattern_help(t))),
    LAMBDA t : loc_ident_pattern_help(TRUE, t)),
    LAMBDA t : loc(t, specialize("EPattern::Record", record_pattern_help(t)))),
    LAMBDA t : loc(t, string_pattern_help(t))),
    LAMBDA t : loc(t, number_pattern_help(t)))


\* Faulty variant of loc_parse_tag_pattern_arg: a tag in argument position
\* is parsed with can_have_arguments = true and takes arguments of its own.
loc_parse_tag_pattern_arg_with_arguments(s) == loc_pattern_help(s)

loc_parse_tag_pattern_arg(s) ==
  one_of(one_of(one_of(one_of(one_of(
    specialize("EPattern::PInParens", loc_pattern_in_parens_help(s)),
    LAMBDA t : loc(t, underscore_pattern_help(t))),
    LAMBDA t : loc_ident_pattern_help(FALSE, t)),
    LAMBDA t : loc(t, specialize("EPattern::Record", record_pattern_help(t)))),
    LAMBDA t : loc(t, string_pattern_help(t))),
    LAMBDA t : loc(t, number_pattern_help(t)))

loc_pattern(s) == specialize_syntax(loc_pattern_help(s))

parse_closure_param(s) ==
  one_of(one_of(one_of(
    loc_ident_pattern_help(TRUE, s),
    LAMBDA t : loc(t, underscore_pattern_help(t))),
    LAMBDA t : loc(t, specialize("EPattern::Record", record_pattern_help(t)))),
    LAMBDA t : specialize("EPattern::PInParens", loc_pattern_in_parens_help(t)))

parse(name, s) ==
  CASE name = "loc_pattern" -> loc_pattern(s)
    [] name = "loc_parse_tag_pattern_arg" -> loc_parse_tag_pattern_arg(s)

(***************************************************************************)
(* Inputs                                                                  *)
(***************************************************************************)
\* The tokens enumerated exhaustively.
Alphabet ==
  Punct \cup Blank \cup {"a", "if", "Foo", "@Foo", "Foo.bar", "if.x", ".foo", "a..b", "1", "str", "->"}

\* What the scanners can produce: a run of blanks is one token, and so is a
\* run of word characters.
Lexical(seq) ==
  \A i \in 1..(Len(seq) - 1) :
    /\ ~(seq[i] \in Blank /\ seq[i + 1] \in Blank)
    /\ ~(seq[i] \in Word /\ seq[i + 1] \in Word \cup {"_"})

\* `Foo Bar 1`
FooBar1 == <<"Foo", "SP", "Bar", "SP", "1">>

\* `{ a, b: _, c ? 1 }`
RecordABC == <<"{", "SP", "a", ",", "SP", "b", ":", "SP", "_", ",", "SP", "c", "SP", "?", "SP", "1", "SP", "}">>

Samples ==
  { FooBar1, RecordABC,
    <<"Foo", "SP", "(", "Bar", "SP", "1", ")">>,
    <<"Foo", "SP", "Bar", "SP", "->">>,
    <<"Foo", "SP", "1", "TAB", "1">>,
    <<"{", "b", ",", "a", ",", "b", "}">>,
    <<"{", "a", ":", "Foo", "SP", "a..b", "}">>,
    <<"(", "Foo", "SP", "{", "a", ":", "a..b", "}", ")">>,
    <<"Foo.if">>, <<"a.b.c">> }

Inputs == {seq \in UNION {[1..n -> Alphabet] : n \in 0..MaxLen} : Lexical(seq)} \cup Samples

(***************************************************************************)
(* The state machine: a parser is applied to the input at its first token. *)
(***************************************************************************)
Init ==
  /\ input \in Inputs
  /\ parser = "none"
  /\ flag = FALSE
  /\ result = NoVal

ParsePattern ==
  /\ parser = "none"
  /\ parser' = "loc_pattern_help"
  /\ flag' = TRUE
  /\ result' = loc_pattern_help(1)
  /\ UNCHANGED input

ParseClosureParam ==
  /\ parser = "none"
  /\ parser' = "parse_closure_param"
  /\ flag' = TRUE
  /\ result' = parse_closure_param(1)
  /\ UNCHANGED input

ParseIdentPattern ==
  \E can_have_arguments \in BOOLEAN :
  /\ parser = "none"
  /\ parser' = "loc_ident_pattern_help"
  /\ flag' = can_have_arguments
  /\ result' = loc_ident_pattern_help(can_have_arguments, 1)
  /\ UNCHANGED input

ParseTagPatternArgs ==
  /\ parser = "none"
  /\ parser' = "loc_tag_pattern_args_help"
  /\ flag' = FALSE
  /\ result' = loc_tag_pattern_args_help(1)
  /\ UNCHANGED input

ParseTagPatternArg ==
  /\ parser = "none"
  /\ parser' = "loc_tag_pattern_arg"
  /\ flag' = FALSE
  /\ result' = loc_tag_pattern_arg(1)
  /\ UNCHANGED input

ParseRecordPattern ==
  /\ parser = "none"
  /\ parser' = "record_pattern_help"
  /\ flag' = FALSE
  /\ result' = record_pattern_help(1)
  /\ UNCHANGED input

ParseRecordField ==
  /\ parser = "none"
  /\ parser' = "record_pattern_field"
  /\ flag' = FALSE
  /\ result' = record_pattern_field(1)
  /\ UNCHANGED input

Next ==
  \/ ParsePattern
  \/ ParseClosureParam
  \/ ParseIdentPattern
  \/ ParseTagPatternArgs
  \/ ParseTagPatternArg
  \/ ParseRecordPattern
  \/ ParseRecordField

Spec == Init /\ [][Next]_vars

(***************************************************************************)
(* Vocabulary of the properties                                            *)
(***************************************************************************)
Ran(name) == parser = name

PatternParsers == {"loc_pattern_help", "parse_closure_param"}

TagTokens == {"Foo", "Bar", "@Foo"}

TagNode(tok) == IF tok = "@Foo" THEN PrivateTag(tok) ELSE GlobalTag(tok)

\* The token is an unqualified, single-part access whose text is a keyword.
KeywordToken(tok) ==
  /\ tok \in IdentTokens
  /\ ident_of(tok).kind = "Access"
  /\ ident_of(tok).module_name = ""
  /\ Len(ident_of(tok).parts) = 1
  /\ ident_of(tok).parts[1] \in KEYWORDS

\* The token is an access that is module-qualified or has several parts.
QualifiedToken(tok) ==
  /\ tok \in IdentTokens
  /\ ident_of(tok).kind = "Access"
  /\ (ident_of(tok).module_name # "" \/ Len(ident_of(tok).parts) > 1)

MalformedToken(tok) == tok \in IdentTokens /\ ident_of(tok).kind = "Malformed"

\* The located patterns a successful result holds.
ResultPatterns ==
  IF parser = "none" \/ ~result.ok THEN <<>>
  ELSE IF parser = "loc_tag_pattern_args_help" THEN result.val
  ELSE IF parser \in {"record_pattern_help", "record_pattern_field"}
       THEN <<Located(Region(1, result.state), result.val)>>
  ELSE <<result.val>>

\* A node without the trivia that decorates it.
RECURSIVE Strip(_)
Strip(node) == IF node.type \in {"SpaceBefore", "SpaceAfter"} THEN Strip(node.inner) ELSE node

\* The located children of a node.
Children(node) ==
  CASE node.type = "Apply" -> <<node.head>> \o node.args
    [] node.type = "RecordDestructure" -> node.fields
    [] node.type \in {"RequiredField"} -> <<node.val>>
    [] OTHER -> <<>>

IsSuffix(e, err) == Len(e) <= Len(err) /\ SubSeq(err, Len(err) - Len(e) + 1, Len(err)) = e

(***************************************************************************)
(* C1: in the identifier classifier, with can_have_arguments true or       *)
(* false, an unqualified single-part access whose text is a reserved       *)
(* keyword gives a failure with NoProgress at the cursor of entry; the     *)
(* alternation of a pattern then goes on from that cursor, so a pattern    *)
(* that starts with a keyword fails without progress with the error of the *)
(* last alternative.                                                       *)
(***************************************************************************)
C1_KeywordNoProgress ==
  /\ (Ran("loc_ident_pattern_help") /\ KeywordToken(Tok(1))) =>
       /\ ~result.ok
       /\ result.progress = NoProgress
       /\ result.state = 1
       /\ result.err = E("EPattern::End", 1)
  /\ (Ran("loc_pattern_help") /\ KeywordToken(Tok(1))) =>
       /\ ~result.ok
       /\ result.progress = NoProgress
       /\ result.state = 1
       /\ result.err = E("EPattern::Start", 1)

C1_Witness ==
  /\ Ran("loc_ident_pattern_help")
  /\ flag
  /\ input = <<"if", "SP", "a">>
  /\ ~result.ok
  /\ result.state = 1

(***************************************************************************)
(* C2: for every access token that is module-qualified or has more than    *)
(* one part, whatever the text of its parts, the identifier classifier     *)
(* succeeds with MadeProgress and returns Malformed(text) at the token's   *)
(* region, text being the module name and the parts joined with '.'.       *)
(***************************************************************************)
C2_QualifiedAccessIsMalformed ==
  (Ran("loc_ident_pattern_help") /\ QualifiedToken(Tok(1))) =>
    /\ result.ok
    /\ result.progress = MadeProgress
    /\ result.val = Located(Region(1, 2), Malformed(Tok(1)))
    /\ result.state = 2

(***************************************************************************)
(* C3: a malformed identifier at a pattern position makes the pattern      *)
(* parse fail with MadeProgress, never NoProgress: at the top level, as a  *)
(* tag argument, inside parentheses and as a record field's value; and the *)
(* tag-argument parser and repetition fail with MadeProgress on it.        *)
(***************************************************************************)
\* The identifier classifier met a malformed identifier (it alone raises a
\* bare EPattern::Start with progress made).
MetMalformed == \E e \in result.hard : Len(e) = 1 /\ e[1].kind = "EPattern::Start"

\* The cursor after an optional blank token of spaces or newlines.
SkipBlank(s) == IF Tok(s) \in {"SP", "NL"} THEN s + 1 ELSE s

MalformedAtPosition ==
  \/ MalformedToken(Tok(1))
  \/ Tok(1) \in TagTokens /\ MalformedToken(Tok(SkipBlank(2)))
  \/ Tok(1) = "(" /\ MalformedToken(Tok(SkipBlank(2)))
  \/ /\ Tok(1) = "{"
     /\ Tok(SkipBlank(2)) = "a"
     /\ Tok(SkipBlank(SkipBlank(2) + 1)) = ":"
     /\ MalformedToken(Tok(SkipBlank(SkipBlank(SkipBlank(2) + 1) + 1)))

C3_MalformedIdentIsHardFailure ==
  /\ (parser \in PatternParsers /\ (MalformedAtPosition \/ MetMalformed)) =>
       ~result.ok /\ result.progress = MadeProgress
  /\ (parser \in {"loc_tag_pattern_arg", "loc_tag_pattern_args_help"}
        /\ MalformedToken(Tok(SkipBlank(1)))) =>
       ~result.ok /\ result.progress = MadeProgress

C3_Witness ==
  /\ Ran("loc_pattern_help")
  /\ input = <<"Foo", "SP", "a..b">>
  /\ ~result.ok
  /\ result.progress = MadeProgress

(***************************************************************************)
(* C4: in every pattern returned, each Apply node has a GlobalTag or       *)
(* PrivateTag head and at least one argument; a tag parsed with            *)
(* can_have_arguments = true and followed by no argument is the bare tag   *)
(* node at the tag token's region.                                         *)
(***************************************************************************)
RECURSIVE ApplyWellFormed(_)
ApplyWellFormed(node) ==
  /\ node.type = "Apply" =>
       /\ node.head.value.type \in {"GlobalTag", "PrivateTag"}
       /\ node.args # <<>>
  /\ node.type \in {"SpaceBefore", "SpaceAfter"} => ApplyWellFormed(node.inner)
  /\ \A i \in 1..Len(Children(node)) : ApplyWellFormed(Children(node)[i].value)

\* No argument follows the tag at the first token.
NoArgumentFollows == loc_tag_pattern_args_help(2).ok /\ loc_tag_pattern_args_help(2).val = <<>>

C4_ApplyHasTagHeadAndArguments ==
  /\ \A i \in 1..Len(ResultPatterns) : ApplyWellFormed(ResultPatterns[i].value)
  /\ (Ran("loc_ident_pattern_help") /\ flag /\ Tok(1) \in TagTokens /\ NoArgumentFollows) =>
       /\ result.ok
       /\ result.val = Located(Region(1, 2), TagNode(Tok(1)))

C4_Witness ==
  /\ Ran("loc_ident_pattern_help")
  /\ flag
  /\ input = <<"@Foo", "SP", ")">>
  /\ result.ok
  /\ result.val.value = PrivateTag("@Foo")

(***************************************************************************)
(* C5: tag application groups to the left.  A tag in argument position is  *)
(* parsed without arguments of its own; `Foo Bar 1` is Foo applied to Bar  *)
(* and 1; the arguments of an Apply follow its head in source order; and   *)
(* an argument is an Apply only when it was written inside parentheses.    *)
(***************************************************************************)
\* The argument starts right after an opening parenthesis (and its blank).
InParens(loc_arg) ==
  \/ Tok(loc_arg.region.start - 1) = "("
  \/ Tok(loc_arg.region.start - 1) \in Blank /\ Tok(loc_arg.region.start - 2) = "("

RECURSIVE LeftGrouped(_)
LeftGrouped(node) ==
  /\ node.type = "Apply" =>
       /\ \A i \in 1..Len(node.args) :
            Strip(node.args[i].value).type = "Apply" => InParens(node.args[i])
       /\ node.head.region.end <= node.args[1].region.start
       /\ \A i \in 1..(Len(node.args) - 1) :
            node.args[i].region.end <= node.args[i + 1].region.start
  /\ node.type \in {"SpaceBefore", "SpaceAfter"} => LeftGrouped(node.inner)
  /\ \A i \in 1..Len(Children(node)) : LeftGrouped(Children(node)[i].value)

C5_TagApplicationGroupsLeft ==
  /\ \A i \in 1..Len(ResultPatterns) : LeftGrouped(ResultPatterns[i].value)
  /\ (Ran("loc_tag_pattern_arg") /\ Tok(1) \in TagTokens) =>
       /\ result.ok
       /\ result.val = Located(Region(1, 2), TagNode(Tok(1)))
       /\ result.state = 2
  /\ (parser \in PatternParsers /\ input = FooBar1) =>
       /\ result.ok
       /\ result.val.value =
            Apply(Located(Region(1, 2), GlobalTag("Foo")),
                  <<Located(Region(3, 4), GlobalTag("Bar")),
                    Located(Region(5, 6), [type |-> "NumLiteral", name |-> "1"])>>)

C5_Witness ==
  /\ Ran("loc_pattern_help")
  /\ input = FooBar1
  /\ result.ok
  /\ Len(result.val.value.args) = 2

(***************************************************************************)
(* C6: in every located pattern returned, no region starts after its end, *)
(* the region of a composite node contains the regions of its children,    *)
(* the region of an Apply is exactly the span across its head and its      *)
(* arguments, and a bare lowercase identifier that is no keyword has the   *)
(* region of its token.                                                    *)
(***************************************************************************)
Contains(outer, inner) == outer.start <= inner.start /\ inner.end <= outer.end

\* The least position a region of the sequence starts at, the greatest one
\* ends at.
MinStart(locs) == CHOOSE a \in {locs[i].region.start : i \in 1..Len(locs)} :
                    \A i \in 1..Len(locs) : a <= locs[i].region.start

MaxEnd(locs) == CHOOSE b \in {locs[i].region.end : i \in 1..Len(locs)} :
                  \A i \in 1..Len(locs) : locs[i].region.end <= b

RECURSIVE RegionsNest(_)
RegionsNest(loc_pat) ==
  LET node == Strip(loc_pat.value) IN
  /\ loc_pat.region.start <= loc_pat.region.end
  /\ \A i \in 1..Len(Children(node)) :
       /\ Contains(loc_pat.region, Children(node)[i].region)
       /\ RegionsNest(Children(node)[i])
  /\ node.type = "OptionalField" =>
       /\ node.val.region.start <= node.val.region.end
       /\ Contains(loc_pat.region, node.val.region)
  /\ node.type = "Apply" =>
       loc_pat.region = Region(MinStart(Children(node)), MaxEnd(Children(node)))

C6_RegionsNest ==
  /\ \A i \in 1..Len(ResultPatterns) : RegionsNest(ResultPatterns[i])
  /\ (parser \in PatternParsers \cup {"loc_ident_pattern_help"} /\ Tok(1) \in {"a", "b", "c"}) =>
       /\ result.ok
       /\ result.val = Located(Region(1, 2), Identifier(Tok(1)))

C6_Witness ==
  /\ Ran("loc_pattern_help")
  /\ input = <<"Foo", "SP", "(", "Bar", "SP", "1", ")">>
  /\ result.ok
  /\ result.val.region = Region(1, 7)
  /\ Strip(result.val.value.args[1].value).type = "Apply"

(***************************************************************************)
(* C7 as stated: whenever a sub-parser run during a pattern parse fails    *)
(* with progress made, the leading-space parser before a tag argument      *)
(* included, the whole pattern parse fails with progress made and reports  *)
(* that error re-tagged into the enclosing contexts' error kinds.          *)
(***************************************************************************)
Propagated(e) == ~result.ok /\ result.progress = MadeProgress /\ IsSuffix(e, result.err)

C7_EveryHardFailurePropagates ==
  parser \in PatternParsers => \A e \in result.hard : Propagated(e)

(***************************************************************************)
(* C7 amended: a progress-made failure of any sub-parser other than the    *)
(* leading-space parser before a tag argument fails the whole pattern      *)
(* parse with progress made, with that error re-tagged.  A progress-made   *)
(* failure of that leading-space parser is made a no-progress failure at   *)
(* the cursor before the space by backtrackable: the tag-argument parser   *)
(* fails without progress, the argument repetition ends, and the pattern   *)
(* parse succeeds unless another sub-parser fails.                         *)
(***************************************************************************)
ArgumentSpace(e) == e[1].kind = "EPattern::Space"

C7_HardFailurePropagatesButArgumentSpace ==
  /\ parser \in PatternParsers =>
       /\ \A e \in result.hard : ~ArgumentSpace(e) => Propagated(e)
       /\ (\A e \in result.hard : ArgumentSpace(e)) => (result.ok \/ result.progress = NoProgress)
  /\ (Ran("loc_tag_pattern_arg") /\ Tok(1) = "TAB") =>
       /\ ~result.ok
       /\ result.progress = NoProgress
       /\ result.state = 1
       /\ result.err = E("EPattern::Space", 1)

C7_Witness ==
  /\ Ran("loc_pattern_help")
  /\ input = <<"(", "Foo", "SP", "{", "a", ":", "a..b", "}", ")">>
  /\ result.hard = {E("EPattern::Start", 8)}
  /\ Propagated(E("EPattern::Start", 8))
  /\ Len(result.err) = 7

(***************************************************************************)
(* C8: the record-pattern parser keeps one field per source field, in      *)
(* source order, unsorted and with duplicates; a field is RequiredField    *)
(* with a pattern of the general grammar after `:`, OptionalField with an  *)
(* expression after `?`, and otherwise Identifier(label), in SpaceAfter    *)
(* exactly when trivia followed the label.  `{ a, b: _, c ? 1 }` gives     *)
(* [Identifier a, RequiredField(b, Underscore ""), OptionalField(c, 1)].   *)
(***************************************************************************)
\* The labels of the record that opens at the first token, read off the
\* tokens: the lowercase names that follow its `{` or one of its commas.
RECURSIVE SourceLabelsFrom(_, _, _, _)
SourceLabelsFrom(i, depth, prev, acc) ==
  IF i > Len(input) THEN acc
  ELSE IF input[i] \in Blank THEN SourceLabelsFrom(i + 1, depth, prev, acc)
  ELSE IF input[i] \in {"{", "("} THEN SourceLabelsFrom(i + 1, depth + 1, input[i], acc)
  ELSE IF input[i] \in {"}", ")"}
       THEN IF depth <= 1 THEN acc ELSE SourceLabelsFrom(i + 1, depth - 1, input[i], acc)
  ELSE IF depth = 1 /\ prev \in {"{", ","} /\ input[i] \in {"a", "b", "c"}
       THEN SourceLabelsFrom(i + 1, depth, input[i], Append(acc, input[i]))
  ELSE SourceLabelsFrom(i + 1, depth, input[i], acc)

SourceLabels == SourceLabelsFrom(1, 0, "", <<>>)

FieldLabel(node) == IF Strip(node).type = "Identifier" THEN Strip(node).name ELSE Strip(node).label

\* A field without its regions.
FieldShape(node) ==
  IF Strip(node).type = "Identifier" THEN Strip(node)
  ELSE [type |-> Strip(node).type, label |-> Strip(node).label, val |-> Strip(Strip(node).val.value)]

C8_RecordFieldsInSourceOrder ==
  /\ (Ran("record_pattern_help") /\ result.ok) =>
       /\ result.val.type = "RecordDestructure"
       /\ [i \in 1..Len(result.val.fields) |-> FieldLabel(result.val.fields[i].value)] = SourceLabels
       /\ \A i \in 1..(Len(result.val.fields) - 1) :
            result.val.fields[i].region.end <= result.val.fields[i + 1].region.start
  /\ (Ran("record_pattern_help") /\ input = RecordABC) =>
       /\ result.ok
       /\ [i \in 1..Len(result.val.fields) |-> FieldShape(result.val.fields[i].value)] =
            << Identifier("a"),
               [type |-> "RequiredField", label |-> "b", val |-> Underscore("")],
               [type |-> "OptionalField", label |-> "c", val |-> [type |-> "Num", name |-> "1"]] >>
  /\ (Ran("record_pattern_field") /\ result.ok) =>
       CASE Tok(SkipBlank(2)) = ":" ->
              /\ result.val.type = "RequiredField"
              /\ result.val.label = Tok(1)
              /\ loc_pattern_help(SkipBlank(SkipBlank(2) + 1)).ok
              /\ Strip(result.val.val.value) = loc_pattern_help(SkipBlank(SkipBlank(2) + 1)).val.value
         [] Tok(SkipBlank(2)) = "?" ->
              /\ result.val.type = "OptionalField"
              /\ result.val.label = Tok(1)
              /\ expr(SkipBlank(SkipBlank(2) + 1)).ok
              /\ Strip(result.val.val.value) = expr(SkipBlank(SkipBlank(2) + 1)).val
         [] OTHER ->
              result.val = IF Tok(2) = "NL" THEN SpaceAfter(Identifier(Tok(1)), <<"Newline">>)
                           ELSE Identifier(Tok(1))

C8_Witness ==
  /\ Ran("record_pattern_help")
  /\ input = <<"{", "b", ",", "a", ",", "b", "}">>
  /\ result.ok
  /\ Len(result.val.fields) = 3

(***************************************************************************)
(* C9 as stated: the tag-argument repetition succeeds for every input      *)
(* cursor and never returns a failure.                                     *)
(***************************************************************************)
C9_RepetitionAlwaysSucceeds == Ran("loc_tag_pattern_args_help") => result.ok

(***************************************************************************)
(* C9 amended: the tag-argument repetition never fails without progress.   *)
(* It succeeds with the (possibly empty) sequence of located arguments in  *)
(* source order, unless an argument fails with progress made; then the     *)
(* repetition fails with progress made and that argument's error.          *)
(***************************************************************************)
C9_RepetitionSucceedsUnlessArgumentFailsHard ==
  Ran("loc_tag_pattern_args_help") =>
    /\ ~result.ok =>
         /\ result.progress = MadeProgress
         /\ \E e \in result.hard : ~ArgumentSpace(e) /\ IsSuffix(e, result.err)
    /\ result.ok =>
         /\ \A e \in result.hard : ArgumentSpace(e)
         /\ \A i \in 1..(Len(result.val) - 1) :
              result.val[i].region.end <= result.val[i + 1].region.start
         /\ (result.val = <<>>) = ~loc_tag_pattern_arg(1).ok
         /\ result.val # <<>> => result.val[1] = loc_tag_pattern_arg(1).val

C9_Witness ==
  /\ Ran("loc_tag_pattern_args_help")
  /\ input = <<"SP", "a", "a..b">> \/ input = <<"SP", "a..b">>
  /\ ~result.ok
  /\ result.progress = MadeProgress

(***************************************************************************)
(* C10: when space was consumed before a candidate tag argument and the    *)
(* atomic pattern after it fails, the cursor is back before that space:    *)
(* the tag-argument parser fails at the cursor it started from, and the    *)
(* cursor returned by the argument repetition and by the enclosing tag     *)
(* pattern is just after the last argument (just after the tag head when   *)
(* there is none), the trailing space unconsumed.                          *)
(***************************************************************************)
C10_TrailingSpaceIsRewound ==
  /\ (Ran("loc_tag_pattern_arg") /\ ~result.ok /\ result.progress = NoProgress) =>
       result.state = 1
  /\ (Ran("loc_tag_pattern_args_help") /\ result.ok) =>
       IF result.val = <<>> THEN result.state = 1 ELSE Tok(result.state - 1) \notin Blank
  /\ (Ran("loc_ident_pattern_help") /\ flag /\ result.ok) =>
       Tok(result.state - 1) \notin Blank
====
